---- MODULE Spec2Model ----
(***************************************************************************)
(* Training progression and achievement ledger of noble-hunt/HOBH.         *)
(*                                                                         *)
(* The persistent state is the relational store behind utils/models.py:    *)
(* the movements table (current_difficulty, progression_threshold), the    *)
(* workout_logs table and the earned_achievements table.  The operations   *)
(* are the log form of main.py (show_log_movement), which calls            *)
(* DataManager.log_movement (utils/data_manager.py), the achievement       *)
(* session that call opens (utils/achievement_manager.py) and then the     *)
(* gamification step (utils/gamification.py).                              *)
(*                                                                         *)
(* The level curve of utils/gamification.py, the strain and recovery       *)
(* scores of utils/recovery_calculator.py and the PR forecast of           *)
(* utils/prediction.py are read-only functions of a total and of the       *)
(* workout_logs table.                                                     *)
(*                                                                         *)
(* Seven specifications share the definitions:                             *)
(*   Spec      the log form submitted again and again, one handler a step  *)
(*   SpecAward the same with two users, heavy lifts, every store fault and *)
(*             direct log_movement calls with out-of-range lifts           *)
(*   SpecLevel get_current_level, get_user_progress, _calculate_time_score *)
(*   SpecScore the log form, then the strain and recovery cards            *)
(*   SpecStreak  the log form over a week of days                          *)
(*   SpecPredict the log form, then the PR forecast and the insights       *)
(*   SpecConc  two sessions running log_movement statement by statement    *)
(***************************************************************************)
EXTENDS Integers, Sequences, FiniteSets, TLC

VARIABLES
    workout_logs,           \* committed rows of workout_logs, in insertion order
    current_difficulty,     \* committed movements.current_difficulty, by movement name
    progression_threshold,  \* committed movements.progression_threshold, by movement name
    earned_achievements,    \* committed rows of earned_achievements, in insertion order
    result,                 \* per session, its last log_movement: "none", "True", "Exception"
    progress,               \* per session, the row its last process_workout was handed, how it ended, and its ProgressUpdate
    total_xp,               \* user_profiles.total_xp as process_workout reads and writes it, by user
    returned,               \* SpecLevel, SpecScore, SpecPredict: the last read-only call, its arguments and its value
    phase,                  \* SpecConc: "setup" (one handler a step) or "concurrent"
    pc,                     \* SpecConc: per session, the statement its log_movement has reached
    call,                   \* SpecAward, SpecConc: per session, the arguments of its last call
    session,                \* SpecConc: per session, what its SQLAlchemy session holds uncommitted
    base                    \* SpecConc: the committed tables when the concurrent calls began

db_vars == <<workout_logs, current_difficulty, progression_threshold, earned_achievements>>
xp_vars == <<total_xp, returned>>
conc_vars == <<phase, pc, call, session, base>>
vars == <<workout_logs, current_difficulty, progression_threshold,
          earned_achievements, result, progress, total_xp, returned,
          phase, pc, call, session, base>>

-----------------------------------------------------------------------------
(* Bounds of the model *)

\* most workout_logs rows a behaviour of Spec stores
MaxLogs == 5

\* most workout_logs rows a behaviour of SpecAward stores
MaxAwardLogs == 2

\* most workout_logs rows a behaviour of SpecScore stores
MaxScoreLogs == 2

\* most workout_logs rows a behaviour of SpecPredict stores
MaxPredictLogs == 5

\* most workout_logs rows a behaviour of SpecStreak stores
MaxStreakLogs == 7

\* most workout_logs rows SpecConc commits before its two concurrent calls
MaxSetupLogs == 2

\* the users who log
Users == {1, 2}

\* the calendar days a workout can be dated on, and the day the clock shows
Dates == {1, 2}
Today == 2

-----------------------------------------------------------------------------
(* utils/models.py *)

\* list(DifficultyLevel): the enum in definition order
DifficultyLevel == <<"BEGINNER", "INTERMEDIATE", "ADVANCED", "ELITE">>

DifficultyValues == {DifficultyLevel[i] : i \in DOMAIN DifficultyLevel}

\* list(DifficultyLevel).index(level)
Index(level) == CHOOSE i \in DOMAIN DifficultyLevel : DifficultyLevel[i] = level

\* Column default of Movement.progression_threshold
DefaultProgressionThreshold == 3

\* The rows init_db seeds into the achievements table
WeightMaster == [name |-> "Weight Master", type |-> "WEIGHT_MILESTONE", criteria_value |-> 100]
ConsistencyKing == [name |-> "Consistency King", type |-> "CONSECUTIVE_DAYS", criteria_value |-> 7]
MovementExpert == [name |-> "Movement Expert", type |-> "MOVEMENT_MASTERY", criteria_value |-> 0]
EliteStatus == [name |-> "Elite Status", type |-> "PROGRESSION_MILESTONE", criteria_value |-> 0]

Achievement == {WeightMaster, ConsistencyKing, MovementExpert, EliteStatus}

\* movement_name of an EarnedAchievement that is not tied to a movement (SQL NULL)
None == "None"

-----------------------------------------------------------------------------
(* utils/data_manager.py: the catalog and the name validation *)

\* self.movements, cut down to two of its entries
movements == {"Clean", "Deadlift"}

\* a wrong Normalize, for comparison: strip() without lower()
NormalizeKeepCase(movement) ==
    CASE movement \in {"clean", " Clean "} -> "clean"
      [] OTHER -> movement

\* str(movement).strip().lower() on the names the model passes in
Normalize(movement) ==
    CASE movement \in {"Clean", "clean", " Clean "} -> "clean"
      [] movement \in {"Deadlift", "DEADLIFT"} -> "deadlift"
      [] movement = "Zumba" -> "zumba"

\* valid_movements = {m.lower(): m for m in self.movements}
valid_movements == [k \in {Normalize(m) : m \in movements} |->
                        CHOOSE m \in movements : Normalize(m) = k]

-----------------------------------------------------------------------------
(* DataManager._update_movement_progression *)

Min(a, b) == IF a < b THEN a ELSE b

\* rows (by position) of one movement
MovementLogs(logs, movement_id) ==
    {i \in DOMAIN logs : logs[i].movement_id = movement_id}

\* a wrong RecentLogs, for comparison: the newest rows by id instead of by date
RecentLogsById(logs, movement_id, limit) ==
    LET rows == MovementLogs(logs, movement_id)
        n == Min(Cardinality(rows), limit)
    IN  {{i \in rows : Cardinality({j \in rows : j > i}) < n}}

\* filter_by(movement_id).order_by(date.desc()).limit(limit).all(): every answer
\* the store may give; rows of equal date come in no order the query fixes
RecentLogs(logs, movement_id, limit) ==
    LET rows == MovementLogs(logs, movement_id)
        n == Min(Cardinality(rows), limit)
    IN  {recent \in SUBSET rows :
            /\ Cardinality(recent) = n
            /\ \A i \in recent, j \in rows \ recent : logs[i].date >= logs[j].date}

\* sum(log.completed_successfully for log in recent_logs)
RECURSIVE SuccessfulSessions(_, _)
SuccessfulSessions(logs, recent) ==
    IF recent = {} THEN 0
    ELSE LET i == CHOOSE x \in recent : TRUE
         IN  logs[i].completed_successfully + SuccessfulSessions(logs, recent \ {i})

\* a wrong UpdateMovementProgression, for comparison: a perfect window promotes two tiers
\* where two are left
UpdateMovementProgressionSkip(logs, recent, difficulty, threshold) ==
    IF /\ Cardinality(recent) >= threshold
       /\ SuccessfulSessions(logs, recent) = threshold
       /\ difficulty # "ELITE"
    THEN DifficultyLevel[Min(Index(difficulty) + 2, Len(DifficultyLevel))]
    ELSE difficulty

\* the tier _update_movement_progression leaves in movement_record
UpdateMovementProgression(logs, recent, difficulty, threshold) ==
    IF Cardinality(recent) >= threshold
    THEN LET successful_sessions == SuccessfulSessions(logs, recent)
         IN  IF successful_sessions = threshold
             THEN IF difficulty # "ELITE"
                  THEN DifficultyLevel[Index(difficulty) + 1]
                  ELSE difficulty
             ELSE IF successful_sessions < (threshold \div 2)
                  THEN IF difficulty # "BEGINNER"
                       THEN DifficultyLevel[Index(difficulty) - 1]
                       ELSE difficulty
                  ELSE difficulty
    ELSE difficulty

-----------------------------------------------------------------------------
(* utils/achievement_manager.py *)

\* _award_achievement: the rows it adds, given the rows its session sees
AwardAchievement(seen, achievement, user_id, movement_name) ==
    LET existing == {i \in DOMAIN seen :
                        /\ seen[i].achievement_id = achievement.name
                        /\ seen[i].user_id = user_id
                        /\ seen[i].movement_name = movement_name}
    IN  IF existing = {}
        THEN <<[achievement_id |-> achievement.name, user_id |-> user_id,
                movement_name |-> movement_name]>>
        ELSE <<>>

\* _check_weight_milestone
CheckWeightMilestone(seen, workout_log) ==
    IF workout_log.weight >= WeightMaster.criteria_value
    THEN AwardAchievement(seen, WeightMaster, workout_log.user_id, workout_log.movement_id)
    ELSE <<>>

\* the distinct dates of the user's committed logs of the past 30 days
WorkoutDates(logs, user_id) ==
    {logs[i].date : i \in {j \in DOMAIN logs :
                              /\ logs[j].date >= Today - 30
                              /\ logs[j].user_id = user_id}}

\* the loop of _check_consecutive_days over the ascending dates: the length of
\* the run of consecutive days that ends at the latest date
RECURSIVE CurrentStreak(_)
CurrentStreak(dates) ==
    IF dates = {} THEN 0
    ELSE LET last == CHOOSE d \in dates : \A e \in dates : e <= d
             before == dates \ {last}
         IN  IF before = {} THEN 1
             ELSE LET prev == CHOOSE d \in before : \A e \in before : e <= d
                  IN  IF last - prev = 1 THEN CurrentStreak(before) + 1 ELSE 1

\* _check_consecutive_days
CheckConsecutiveDays(seen, logs, user_id) ==
    IF CurrentStreak(WorkoutDates(logs, user_id)) >= ConsistencyKing.criteria_value
    THEN AwardAchievement(seen, ConsistencyKing, user_id, None)
    ELSE <<>>

\* _check_movement_mastery
CheckMovementMastery(seen, workout_log) ==
    IF workout_log.difficulty_level = "ADVANCED"
    THEN AwardAchievement(seen, MovementExpert, workout_log.user_id, workout_log.movement_id)
    ELSE <<>>

\* _check_progression_milestone
CheckProgressionMilestone(seen, workout_log) ==
    IF workout_log.difficulty_level = "ELITE"
    THEN AwardAchievement(seen, EliteStatus, workout_log.user_id, workout_log.movement_id)
    ELSE <<>>

\* check_and_award_achievements: the rows its own session adds.  The session
\* sees the committed tables (earned, logs) and what it has flushed itself; the
\* workout_log it is handed is the caller's object, not a row it can query.
CheckAndAwardAchievements(earned, logs, workout_log) ==
    LET a1 == CheckWeightMilestone(earned, workout_log)
        a2 == CheckConsecutiveDays(earned \o a1, logs, workout_log.user_id)
        a3 == CheckMovementMastery(earned \o a1 \o a2, workout_log)
        a4 == CheckProgressionMilestone(earned \o a1 \o a2 \o a3, workout_log)
    IN  a1 \o a2 \o a3 \o a4

-----------------------------------------------------------------------------
(* utils/gamification.py against the mapped classes of utils/models.py *)

\* the attributes of the mapped classes (columns and relationships)
WorkoutLogAttributes ==
    {"id", "user_id", "date", "movement_id", "weight", "reps", "notes",
     "difficulty_level", "completed_successfully", "user", "movement"}

UserProfileAttributes ==
    {"id", "username", "password", "display_name", "bio", "avatar_style",
     "avatar_background", "avatar_features", "created_at", "wearable_devices",
     "followers", "following", "workout_logs", "shared_workouts",
     "earned_achievements"}

AchievementAttributes ==
    {"id", "name", "description", "type", "criteria_value", "icon_name", "created_at"}

\* what calculate_workout_xp reads from the workout it is handed
CalculateWorkoutXpReads == {"difficulty", "weight", "reps", "completed"}

\* what process_workout reads from the user profile
ProcessWorkoutReads == {"total_xp"}

\* int(x) of Python for x = n / d with d > 0: towards zero
int(n, d) == IF n >= 0 THEN n \div d ELSE -((-n) \div d)

\* self.xp_multipliers, in tenths; .get(key, 1.0) for any other key
xp_multipliers ==
    [BEGINNER |-> 10, INTERMEDIATE |-> 15, ADVANCED |-> 20, ELITE |-> 30]

\* a wrong XpOf, for comparison: the success bonus is multiplied too
XpOfBonusMultiplied(difficulty, weight, reps, completed) ==
    LET difficulty_multiplier == IF difficulty \in DOMAIN xp_multipliers
                                 THEN xp_multipliers[difficulty] ELSE 10
        success_bonus == IF completed # 0 THEN 50 ELSE 0
    IN  int((1000 + Min(1000, weight * reps) + 10 * success_bonus)
                * difficulty_multiplier, 100)

\* the arithmetic of calculate_workout_xp on the values it read:
\* int((base_xp + min(100, volume / 10)) * difficulty_multiplier + success_bonus),
\* computed in hundredths
XpOf(difficulty, weight, reps, completed) ==
    LET difficulty_multiplier == IF difficulty \in DOMAIN xp_multipliers
                                 THEN xp_multipliers[difficulty] ELSE 10
        success_bonus == IF completed # 0 THEN 50 ELSE 0
    IN  int((1000 + Min(1000, weight * reps)) * difficulty_multiplier
                + 100 * success_bonus, 100)

\* GamificationManager.calculate_workout_xp on a WorkoutLog row: it reads
\* workout.difficulty, .weight, .reps and .completed, and reading an attribute
\* the class does not have raises AttributeError
calculate_workout_xp(workout) ==
    IF ~ (CalculateWorkoutXpReads \subseteq WorkoutLogAttributes)
    THEN [raised |-> TRUE]
    ELSE [raised |-> FALSE,
          xp |-> XpOf(workout.difficulty_level, workout.weight, workout.reps,
                      workout.completed_successfully)]

\* the levels _initialize_levels builds: range(1, 31)
Levels == 1..30

\* 1000 * 1.5 ** k as <<q, r>> with 1000 * 3^k = q * 2^k + r and 0 <= r < 2^k
\* (the powers are exact in floating point up to k = 29)
RECURSIVE ScaledXp(_)
ScaledXp(k) ==
    IF k = 0
    THEN <<1000, 0>>
    ELSE LET p == ScaledXp(k - 1)
             half == 2 ^ (k - 1)
             t == (3 * p[1]) + ((3 * p[2]) \div half)
         IN  <<t \div 2, ((t % 2) * half) + ((3 * p[2]) % half)>>

\* xp_required = int(base_xp * (1.5 ** (level - 1)))
xp_required(level) == ScaledXp(level - 1)[1]

titles == <<"Novice Lifter", "Amateur Athlete", "Dedicated Trainee",
            "Elite Performer", "Master of Iron", "Olympic Prospect">>

\* LevelInfo(level, title, xp_required, rewards); the title and the rewards as
\* the values their f-strings are formatted from
LevelInfo(level) ==
    LET title_index == Min(Len(titles) - 1, (level - 1) \div 5)
    IN  [level |-> level,
         title |-> <<titles[title_index + 1], level>>,
         xp_required |-> xp_required(level),
         rewards |-> <<<<"Title Unlocked", titles[title_index + 1]>>,
                       <<"Badge", level>>>>
                     \o (IF level % 5 = 0 THEN <<"Custom Avatar Frame">> ELSE <<>>)
                     \o (IF level % 10 = 0 THEN <<"Special Effect Animation">> ELSE <<>>)]

levels == [level \in Levels |-> LevelInfo(level)]

\* a wrong ScanLevels, for comparison: a level is reached only by exceeding
\* its xp_required
RECURSIVE ScanLevelsStrict(_, _, _)
ScanLevelsStrict(total_xp_, level, current_level) ==
    IF level \notin Levels
    THEN current_level
    ELSE IF total_xp_ > levels[level].xp_required
         THEN ScanLevelsStrict(total_xp_, level + 1, level)
         ELSE current_level

\* the loop of get_current_level from a level on: the last level whose
\* xp_required the total reaches before the first one it does not reach
RECURSIVE ScanLevels(_, _, _)
ScanLevels(total_xp_, level, current_level) ==
    IF level \notin Levels
    THEN current_level
    ELSE IF total_xp_ >= levels[level].xp_required
         THEN ScanLevels(total_xp_, level + 1, level)
         ELSE current_level

\* get_current_level: the scan starts with current_level = 1
get_current_level(total_xp_) == levels[ScanLevels(total_xp_, 1, 1)]

Raised == [raised |-> TRUE, rows |-> <<>>]

\* GamificationManager._award_achievement: filter_by(achievement_id=...) on
\* Achievement raises unless the class has that attribute; the existence check
\* is by (user_id, achievement) alone
GamificationAward(seen, user_id, achievement, movement_name) ==
    IF "achievement_id" \notin AchievementAttributes
    THEN Raised
    ELSE LET existing == {i \in DOMAIN seen :
                             /\ seen[i].user_id = user_id
                             /\ seen[i].achievement_id = achievement.name}
         IN  [raised |-> FALSE,
              rows |-> IF existing = {}
                       THEN <<[achievement_id |-> achievement.name, user_id |-> user_id,
                               movement_name |-> movement_name]>>
                       ELSE <<>>]

NoRows == [raised |-> FALSE, rows |-> <<>>]

\* the count of _check_achievements: the user's distinct workout dates of the
\* past 7 days
RecentWorkouts(logs, user_id) ==
    Cardinality({logs[i].date : i \in {j \in DOMAIN logs :
                                          /\ logs[j].user_id = user_id
                                          /\ logs[j].date >= Today - 7}})

\* GamificationManager._check_achievements: the four predicates in turn, each
\* award seeing the rows the session added before it; reading workout.difficulty
\* raises unless WorkoutLog has that attribute
GamificationCheckAchievements(seen, logs, workout) ==
    LET a1 == IF workout.weight >= 100
              THEN GamificationAward(seen, workout.user_id, WeightMaster,
                                     workout.movement_id)
              ELSE NoRows
        a2 == IF RecentWorkouts(logs, workout.user_id) >= 7
              THEN GamificationAward(seen \o a1.rows, workout.user_id,
                                     ConsistencyKing, None)
              ELSE NoRows
        a3 == IF workout.difficulty_level = "ADVANCED"
              THEN GamificationAward(seen \o a1.rows \o a2.rows, workout.user_id,
                                     MovementExpert, workout.movement_id)
              ELSE NoRows
        a4 == IF workout.difficulty_level = "ELITE"
              THEN GamificationAward(seen \o a1.rows \o a2.rows \o a3.rows,
                                     workout.user_id, EliteStatus, workout.movement_id)
              ELSE NoRows
    IN  IF \/ a1.raised
           \/ a2.raised
           \/ "difficulty" \notin WorkoutLogAttributes
           \/ a3.raised
           \/ a4.raised
        THEN Raised
        ELSE [raised |-> FALSE, rows |-> a1.rows \o a2.rows \o a3.rows \o a4.rows]

\* how a process_workout that raised is shown in progress, and one not yet run
ProcessWorkoutRaised == [status |-> "Exception"]
NoProgress == [status |-> "none"]

\* GamificationManager.process_workout on a WorkoutLog row, with the totals
\* stored by user: whether it raises, and when it does not the rows its session
\* commits and the ProgressUpdate it returns (total_xp is the total it stores)
ProcessWorkout(seen, logs, totals, workout) ==
    LET xp_gained == calculate_workout_xp(workout)
    IN  IF xp_gained.raised
        THEN Raised
        ELSE IF ~ (ProcessWorkoutReads \subseteq UserProfileAttributes)
        THEN Raised
        ELSE
        LET old_total_xp == totals[workout.user_id]
            new_total_xp == old_total_xp + xp_gained.xp
            old_level == get_current_level(old_total_xp)
            new_level == get_current_level(new_total_xp)
            achievements_earned == GamificationCheckAchievements(seen, logs, workout)
        IN  IF achievements_earned.raised
            THEN Raised
            ELSE [raised |-> FALSE,
                  rows |-> achievements_earned.rows,
                  update |-> [status |-> "ProgressUpdate",
                              xp_gained |-> xp_gained.xp,
                              \* Optional[LevelInfo]: <<>> for None
                              new_level |-> IF new_level.level > old_level.level
                                            THEN <<new_level>> ELSE <<>>,
                              total_xp |-> new_total_xp]]

\* _get_recent_achievements: the user's five most recently earned rows, the
\* latest first
get_recent_achievements(earned, user_id) ==
    LET rows == SelectSeq(earned, LAMBDA row : row.user_id = user_id)
        n == Len(rows)
    IN  [k \in 1..Min(5, n) |->
            [name |-> rows[n + 1 - k].achievement_id,
             movement_name |-> rows[n + 1 - k].movement_name]]

\* int((xp_progress / xp_needed) * 100): the quotient cut towards zero, by
\* long division; where it is a whole number the product of the floats can
\* fall just short of it
progress_percent(xp_progress, xp_needed) ==
    LET sign == IF xp_progress < 0 THEN -1 ELSE 1
        n == sign * xp_progress
        tens == ((n % xp_needed) * 10) \div xp_needed
        rest == ((n % xp_needed) * 10) % xp_needed
        units == (rest * 10) \div xp_needed
        magnitude == (n \div xp_needed) * 100 + tens * 10 + units
    IN  IF (rest * 10) % xp_needed = 0 /\ magnitude # 0
        THEN {sign * magnitude, sign * (magnitude - 1)}
        ELSE {sign * magnitude}

\* the progress get_user_progress computes for a stored total: 0 at the last
\* level, else min(100, int(...)) of the share of the way from the current
\* level's xp_required to the next one's
progress_to_next(total_xp_) ==
    LET current_level == get_current_level(total_xp_)
    IN  IF current_level.level + 1 \notin Levels THEN {0}
        ELSE {Min(100, percent) :
                percent \in progress_percent(total_xp_ - current_level.xp_required,
                                levels[current_level.level + 1].xp_required
                                   - current_level.xp_required)}

\* get_user_progress on a profile row of a class with the given attributes
\* whose total_xp, if the class has one, is stored_total_xp: the dicts it can
\* return, or the exception it raises
get_user_progress(attributes, earned, user_id, stored_total_xp) ==
    IF user_id \notin Users
    THEN {[raised |-> TRUE, error |-> "ValueError"]}
    ELSE IF "total_xp" \notin attributes
    THEN {[raised |-> TRUE, error |-> "AttributeError"]}
    ELSE LET current_level == get_current_level(stored_total_xp)
         IN  {[raised |-> FALSE,
               total_xp |-> stored_total_xp,
               current_level |-> current_level,
               \* self.levels.get(...): <<>> for None
               next_level |-> IF current_level.level + 1 \in Levels
                              THEN <<levels[current_level.level + 1]>> ELSE <<>>,
               progress_to_next |-> percent,
               recent_achievements |-> get_recent_achievements(earned, user_id)] :
                 percent \in progress_to_next(stored_total_xp)}

-----------------------------------------------------------------------------
(* utils/recovery_calculator.py: RecoveryCalculator *)

\* The floats of the calculator are fractions <<numerator, denominator>> with
\* a positive denominator, in lowest terms.
RECURSIVE GCD(_, _)
GCD(a, b) == IF b = 0 THEN a ELSE GCD(b, a % b)

Frac(n, d) ==
    LET g == GCD(IF n < 0 THEN -n ELSE n, d)
    IN  <<n \div g, d \div g>>

Plus(x, y) == Frac(x[1] * y[2] + y[1] * x[2], x[2] * y[2])

\* x * n / d
Times(x, n, d) == Frac(x[1] * n, x[2] * d)

Less(x, y) == x[1] * y[2] < y[1] * x[2]

FMin(x, y) == IF Less(y, x) THEN y ELSE x

\* a wrong FMax, for comparison: no lower bound is applied
FMaxFirst(x, y) == x

FMax(x, y) == IF Less(x, y) THEN y ELSE x

\* round(x, places) in units of 10 ** -places: the nearest; exactly between
\* two, the binary value of the float decides and either may be returned
Round(x, places) ==
    LET n == x[1] * 10 ^ places
        t == n \div x[2]
        rem == n - t * x[2]
    IN  IF 2 * rem < x[2] THEN {t}
        ELSE IF 2 * rem > x[2] THEN {t + 1}
        ELSE {t, t + 1}

volume_weight == Frac(4, 10)
intensity_weight == Frac(3, 10)
frequency_weight == Frac(3, 10)
MAX_DAILY_VOLUME == 10000
RECOVERY_WINDOW_DAYS == 7

\* A datetime is <<day, hour>>; a WorkoutLog.date is a day, compared with a
\* datetime as that day's midnight.
Midnight(day) == <<day, 0>>

Before(t, u) == t[1] < u[1] \/ (t[1] = u[1] /\ t[2] < u[2])

\* date - timedelta(days=n)
DaysBefore(date, n) == <<date[1] - n, date[2]>>

RECURSIVE SumOver(_, _)
\* sum(f[i] for i in rows), as a fraction
SumOver(f, rows) ==
    IF rows = {} THEN Frac(0, 1)
    ELSE LET i == CHOOSE x \in rows : TRUE
         IN  Plus(f[i], SumOver(f, rows \ {i}))

\* _calculate_volume_score: (total_volume / MAX_DAILY_VOLUME) * 10
volume_score(logs, workouts) ==
    LET total_volume == SumOver([i \in workouts |-> Frac(logs[i].weight * logs[i].reps, 1)],
                                workouts)
    IN  Times(total_volume, 10, MAX_DAILY_VOLUME)

\* func.max(WorkoutLog.weight) over the user's rows of the movement, or
\* workout.weight where that is falsy
pr_weight(logs, i) ==
    LET weights == {logs[j].weight : j \in {k \in DOMAIN logs :
                                              /\ logs[k].movement_id = logs[i].movement_id
                                              /\ logs[k].user_id = logs[i].user_id}}
        best == CHOOSE w \in weights : \A v \in weights : v <= w
    IN  IF best # 0 THEN best ELSE logs[i].weight

\* _calculate_intensity_score: the mean of weight / pr_weight (1 where
\* pr_weight is 0), times 10
intensity_score(logs, workouts) ==
    IF workouts = {} THEN Frac(0, 1)
    ELSE LET relative_intensity ==
                 [i \in workouts |->
                     IF pr_weight(logs, i) # 0
                     THEN IF pr_weight(logs, i) > 0
                          THEN Frac(logs[i].weight, pr_weight(logs, i))
                          ELSE Frac(-logs[i].weight, -pr_weight(logs, i))
                     ELSE Frac(1, 1)]
         IN  Times(SumOver(relative_intensity, workouts), 10, Cardinality(workouts))

\* _calculate_frequency_score: the user's rows from date - 7 days to date,
\* min((workout_count / 14) * 10, 10)
frequency_score(logs, user_id, date) ==
    LET workout_count ==
            Cardinality({i \in DOMAIN logs :
                            /\ logs[i].user_id = user_id
                            /\ ~ Before(Midnight(logs[i].date), DaysBefore(date, 7))
                            /\ ~ Before(date, Midnight(logs[i].date))})
    IN  FMin(Frac(workout_count * 10, 14), Frac(10, 1))

\* _get_strain_message, on a score in tenths
strain_message(score) ==
    IF score <= 30 THEN "Low training strain - You can increase intensity"
    ELSE IF score <= 60 THEN "Moderate training strain - Good training stimulus"
    ELSE IF score <= 80 THEN "High training strain - Monitor recovery closely"
    ELSE "Very high training strain - Consider reducing load"

\* calculate_strain_score(user_id, date): the dicts it can return, the score
\* in tenths and the components in hundredths
calculate_strain_score(logs, user_id, date) ==
    LET daily_workouts == {i \in DOMAIN logs : /\ logs[i].user_id = user_id
                                               /\ logs[i].date = date[1]}
    IN  IF daily_workouts = {}
        THEN {[strain_score |-> 0,
               components |-> [volume |-> 0, intensity |-> 0, frequency |-> 0],
               message |-> "No training data for this date"]}
        ELSE LET volume == volume_score(logs, daily_workouts)
                 intensity == intensity_score(logs, daily_workouts)
                 frequency == frequency_score(logs, user_id, date)
                 strain == Plus(Times(volume, volume_weight[1], volume_weight[2]),
                                Plus(Times(intensity, intensity_weight[1], intensity_weight[2]),
                                     Times(frequency, frequency_weight[1],
                                           frequency_weight[2])))
                 clamped == FMin(FMax(strain, Frac(1, 1)), Frac(10, 1))
             IN  {[strain_score |-> score,
                   components |-> [volume |-> v, intensity |-> i, frequency |-> f],
                   message |-> strain_message(score)] :
                     score \in Round(clamped, 1), v \in Round(volume, 2),
                     i \in Round(intensity, 2), f \in Round(frequency, 2)}

\* The Python class of WorkoutLog.date values, a Date column, and of the date
\* the callers of the calculator pass, datetime.now()
WorkoutLogDateClass == "date"
CallerDateClass == "datetime"

\* _calculate_time_score on the hours between the two dates
time_score(hours_since_workout) ==
    IF hours_since_workout < 24
    THEN FMax(Frac(1, 1), Frac(hours_since_workout * 10, 24))
    ELSE IF hours_since_workout < 48
    THEN FMin(Frac(10, 1), Frac(hours_since_workout * 5, 24))
    ELSE Frac(10, 1)

\* _calculate_cumulative_load_score: the loads decayed by 0.8 a day back from
\* the most recent workout, scaled against three days of MAX_DAILY_VOLUME
cumulative_load_score(logs, recent_workouts, today) ==
    LET weighted_load ==
            [i \in recent_workouts |->
                Times(Frac(logs[i].weight * logs[i].reps, 1),
                      4 ^ (today - logs[i].date), 5 ^ (today - logs[i].date))]
        total_load == SumOver(weighted_load, recent_workouts)
        share == FMin(Times(total_load, 1, MAX_DAILY_VOLUME * 3), Frac(9, 10))
        recovery_score == Times(Plus(Frac(1, 1), Times(share, -1, 1)), 10, 1)
    IN  FMax(Frac(1, 1), recovery_score)

\* _get_recovery_message, on a score in tenths
recovery_message(score) ==
    IF score <= 30 THEN "Poor recovery - Consider extra rest or light training"
    ELSE IF score <= 60 THEN "Moderate recovery - Proceed with caution"
    ELSE IF score <= 80 THEN "Good recovery - Ready for moderate training"
    ELSE "Excellent recovery - Ready for intense training"

\* what the except clause of calculate_recovery_score returns
RecoveryError(error) ==
    [recovery_score |-> 0, error |-> error,
     message |-> "Error calculating recovery score"]

\* calculate_recovery_score(user_id, date): the dicts it can return, the score
\* in tenths.  current_date - last_workout_date raises TypeError unless both
\* are of one class, and recent_workouts[0].date.date() raises AttributeError
\* on a date.
calculate_recovery_score(logs, user_id, date) ==
    LET recent_workouts ==
            {i \in DOMAIN logs :
                /\ logs[i].user_id = user_id
                /\ ~ Before(Midnight(logs[i].date), DaysBefore(date, RECOVERY_WINDOW_DAYS))
                /\ Before(Midnight(logs[i].date), date)}
    IN  IF recent_workouts = {}
        THEN {[recovery_score |-> 100,
               message |-> "Fully recovered - No recent training load"]}
        ELSE IF WorkoutLogDateClass # CallerDateClass
        THEN {RecoveryError("TypeError")}
        ELSE IF WorkoutLogDateClass # "datetime"
        THEN {RecoveryError("AttributeError")}
        ELSE
        LET last == CHOOSE i \in recent_workouts :
                        \A j \in recent_workouts : logs[j].date <= logs[i].date
            time == time_score((date[1] - logs[last].date) * 24 + date[2])
            load == cumulative_load_score(logs, recent_workouts, logs[last].date)
            recovery == Plus(Times(time, 6, 10), Times(load, 4, 10))
            clamped == FMin(FMax(recovery, Frac(1, 1)), Frac(10, 1))
        IN  {[recovery_score |-> score, message |-> recovery_message(score)] :
                score \in Round(clamped, 1)}

-----------------------------------------------------------------------------
(* utils/prediction.py: PRPredictor on the DataFrame of get_movement_history *)

min_data_points == 5
prediction_days == 30

\* get_movement_history(movement): the rows of the movement, of every user
get_movement_history(logs, movement) ==
    {i \in DOMAIN logs : logs[i].movement_id = movement}

RECURSIVE Sum(_, _)
\* sum(f[i] for i in rows), of integers
Sum(f, rows) ==
    IF rows = {} THEN 0
    ELSE LET i == CHOOSE x \in rows : TRUE
         IN  f[i] + Sum(f, rows \ {i})

\* a wrong NotEnoughData, for comparison: four data points are taken as enough
NotEnoughDataFour(data) == Cardinality(data) < min_data_points - 1

\* len(self.data) < self.min_data_points
NotEnoughData(data) == Cardinality(data) < min_data_points

\* prepare_data: (None, None), or the days since the first workout and the
\* weights, row by row
prepare_data(logs, data) ==
    IF NotEnoughData(data) THEN <<>>
    ELSE LET first_date == CHOOSE d \in {logs[i].date : i \in data} :
                               \A i \in data : d <= logs[i].date
         IN  <<[X |-> [i \in data |-> logs[i].date - first_date],
                y |-> [i \in data |-> logs[i].weight]]>>

\* LinearRegression().fit(X, y): the least-squares line through the points,
\* kept as its slope and the two means; with every X equal the slope is 0
LinearRegression(X, y) ==
    LET rows == DOMAIN X
        n == Cardinality(rows)
        Sx == Sum(X, rows)
        Sy == Sum(y, rows)
        Sxx == Sum([i \in rows |-> X[i] * X[i]], rows)
        Sxy == Sum([i \in rows |-> X[i] * y[i]], rows)
        Syy == Sum([i \in rows |-> y[i] * y[i]], rows)
    IN  [coef |-> IF n * Sxx = Sx * Sx THEN Frac(0, 1)
                  ELSE Frac(n * Sxy - Sx * Sy, n * Sxx - Sx * Sx),
         mean_x |-> Frac(Sx, n),
         mean_y |-> Frac(Sy, n),
         Cxx |-> n * Sxx - Sx * Sx,
         Cxy |-> n * Sxy - Sx * Sy,
         Cyy |-> n * Syy - Sy * Sy]

\* model.predict([[day]])[0]
Predict(model, day) ==
    Plus(model.mean_y,
         Times(Plus(Frac(day, 1), Times(model.mean_x, -1, 1)),
               model.coef[1], model.coef[2]))

\* r2_score(y, model.predict(X)) of the fitted line: the squared correlation,
\* 1 when the weights are all equal (the line passes through every point)
r2_score(model) ==
    IF model.Cyy = 0 THEN Frac(1, 1)
    ELSE IF model.Cxx = 0 THEN Frac(0, 1)
    ELSE Frac(model.Cxy * model.Cxy, model.Cxx * model.Cyy)

\* round(predicted_weight * 2) / 2
RoundToHalf(x) == {Frac(t, 2) : t \in Round(Times(x, 2, 1), 0)}

NotEnoughDataForPrediction ==
    [prediction |-> <<>>, confidence |-> Frac(0, 1),
     message |-> "Not enough data for prediction. Need at least 5 workouts."]

\* predict_pr on the rows data of logs: the dicts it can return.  prediction
\* is <<>> for None and <<weight>> otherwise; the local variable prediction
\* of the maintain branch is not what the dict is built from.
predict_pr(logs, data) ==
    LET prepared == prepare_data(logs, data)
    IN  IF prepared = <<>> THEN {NotEnoughDataForPrediction}
        ELSE IF Cardinality(DOMAIN prepared[1].X) < min_data_points
        THEN {NotEnoughDataForPrediction}
        ELSE
        LET X == prepared[1].X
            y == prepared[1].y
            model == LinearRegression(X, y)
            last_day == CHOOSE d \in {X[i] : i \in data} : \A i \in data : X[i] <= d
            future_day == last_day + prediction_days
            current_pr == CHOOSE w \in {y[i] : i \in data} : \A i \in data : y[i] <= w
            max_predicted == Times(Frac(current_pr, 1), 115, 100)
            clamped == FMin(Predict(model, future_day), max_predicted)
        IN  {[current_pr |-> Frac(current_pr, 1),
              prediction |-> <<predicted_weight>>,
              confidence |-> r2_score(model),
              improvement_rate |-> model.coef,
              message |->
                  IF ~ Less(Frac(current_pr, 1), predicted_weight)
                  THEN "Maintain current training pattern to preserve your PR."
                  ELSE "Based on your training pattern, you could achieve a new PR of {predicted_weight}kg (+{improvement:.1f}kg) within the next 30 days."] :
                predicted_weight \in RoundToHalf(clamped)}

\* analyze_training_frequency: the mean interval between the sorted distinct
\* dates, which is the span of the dates over the number of intervals
analyze_training_frequency(logs, data) ==
    LET dates == {logs[i].date : i \in data}
        first == CHOOSE d \in dates : \A e \in dates : d <= e
        last == CHOOSE d \in dates : \A e \in dates : e <= d
    IN  IF Cardinality(dates) < 2 THEN Frac(0, 1)
        ELSE Frac(last - first, Cardinality(dates) - 1)

RECURSIVE recent_volume(_, _, _)
\* sort_values('date').tail(k)['volume']: the volumes of the last k rows in
\* date order, as the sequences the sort can produce (rows of one date come
\* in any order)
recent_volume(logs, data, k) ==
    IF k = 0 \/ data = {} THEN {<<>>}
    ELSE LET latest == {j \in data : \A l \in data : logs[l].date <= logs[j].date}
         IN  UNION {LET i == CHOOSE j \in latest : logs[j].weight * logs[j].reps = volume
                    IN  {Append(s, volume) : s \in recent_volume(logs, data \ {i}, k - 1)}
                    : volume \in {logs[j].weight * logs[j].reps : j \in latest}}

\* analyze_volume_trend: the sign of the least-squares slope of the volumes of
\* the last min_data_points rows against 0, 1, 2, ...; a slope of exactly 0 is
\* a float next to 0, of either sign
analyze_volume_trend(logs, data) ==
    IF NotEnoughData(data) THEN {"neutral"}
    ELSE UNION {
        LET k == Len(volume)
            slope == k * Sum([p \in 1..k |-> (p - 1) * volume[p]], 1..k)
                       - Sum([p \in 1..k |-> p - 1], 1..k) * Sum(volume, 1..k)
        IN  IF slope > 0 THEN {"increasing"}
            ELSE IF slope < 0 THEN {"decreasing"}
            ELSE {"increasing", "decreasing", "neutral"}
        : volume \in recent_volume(logs, data, min_data_points)}

\* get_training_insights: the strings it can return, each as its lines
get_training_insights(logs, data) ==
    IF NotEnoughData(data)
    THEN {[lines |-> <<"Not enough data for insights. Continue logging your workouts!">>]}
    ELSE
    LET avg_days_between == analyze_training_frequency(logs, data)
        successes == Cardinality({i \in data : logs[i].completed_successfully = 1})
        success_rate == Frac(successes, Cardinality(data))
        frequency ==
            IF Less(Frac(5, 1), avg_days_between)
            THEN <<"Consider increasing training frequency for better progress.">>
            ELSE IF Less(avg_days_between, Frac(2, 1))
            THEN <<"Ensure adequate rest between training sessions.">>
            ELSE <<>>
        success ==
            IF Less(success_rate, Frac(7, 10))
            THEN <<"High failure rate detected. Consider adjusting weights or volume.">>
            ELSE IF Less(Frac(9, 10), success_rate)
            THEN <<"High success rate - you might be ready for more challenging weights.">>
            ELSE <<>>
        volume(volume_trend) ==
            IF volume_trend = "increasing"
            THEN <<"Good progression in training volume!">>
            ELSE IF volume_trend = "decreasing"
            THEN <<"Training volume is decreasing. Monitor fatigue and recovery.">>
            ELSE <<>>
    IN  {LET insights == frequency \o success \o volume(volume_trend)
         IN  [lines |-> IF insights = <<>> THEN <<"Keep up the consistent training!">>
                        ELSE insights]
         : volume_trend \in analyze_volume_trend(logs, data)}

\* get_movement_predictions(movement): None for a movement that is not in the
\* table or has no rows, else the predictions and the insights
get_movement_predictions(db, movement) ==
    IF movement \notin DOMAIN db.current_difficulty THEN {[none |-> TRUE]}
    ELSE LET history == get_movement_history(db.workout_logs, movement)
         IN  IF history = {} THEN {[none |-> TRUE]}
             ELSE {[none |-> FALSE, predictions |-> predictions, insights |-> insights] :
                     predictions \in predict_pr(db.workout_logs, history),
                     insights \in get_training_insights(db.workout_logs, history)}

-----------------------------------------------------------------------------
(* DataManager.log_movement *)

\* the committed tables a statement reads and writes
Database == [workout_logs |-> workout_logs,
             current_difficulty |-> current_difficulty,
             earned_achievements |-> earned_achievements]

\* the arguments of a call
Args(user_id, movement, weight, reps, date, completed_successfully) ==
    [user_id |-> user_id, movement |-> movement, weight |-> weight, reps |-> reps,
     date |-> date, completed_successfully |-> completed_successfully]

\* a wrong NewWorkoutLog, for comparison: the row takes the first tier, not the movement's
NewWorkoutLogFirstTier(a, movement_id, difficulty) ==
    [user_id |-> a.user_id, date |-> a.date, movement_id |-> movement_id,
     weight |-> a.weight, reps |-> a.reps, difficulty_level |-> DifficultyLevel[1],
     completed_successfully |-> a.completed_successfully]

\* the WorkoutLog(...) the call builds from the movement row it read
NewWorkoutLog(a, movement_id, difficulty) ==
    [user_id |-> a.user_id, date |-> a.date, movement_id |-> movement_id,
     weight |-> a.weight, reps |-> a.reps, difficulty_level |-> difficulty,
     completed_successfully |-> a.completed_successfully]

\* where a statement of the call can fail in the store: the INSERT's flush, the
\* progression query, the achievement session, the call's own commit
Faults == {"none", "flush", "query", "achievements", "commit"}

\* the movement row the call reads: func.lower(Movement.name) == movement_lower
MovementRecord(db, movement) ==
    {m \in DOMAIN db.current_difficulty : Normalize(m) = Normalize(movement)}

\* the tiers the progression update can leave in the movement row, one per
\* answer of its query over the rows the session sees
ProgressionOutcomes(seen_logs, movement_id, difficulty) ==
    {UpdateMovementProgression(seen_logs, recent, difficulty,
                               progression_threshold[movement_id]) :
        recent \in RecentLogs(seen_logs, movement_id,
                              progression_threshold[movement_id])}

\* the call raises and its session rolls back
Rollback(db) == [result |-> "Exception", db |-> db]

\* One whole call on the tables db: every way it can end, as what it returns
\* and the tables it leaves.  fault names the statement the store fails.
log_movement(db, a, fault) ==
    IF Normalize(a.movement) \notin DOMAIN valid_movements
    THEN {Rollback(db)}
    ELSE IF MovementRecord(db, a.movement) = {}
              \/ fault \in {"flush", "query", "achievements"}
    THEN {Rollback(db)}
    ELSE
    LET movement_record == CHOOSE m \in MovementRecord(db, a.movement) : TRUE
        workout_log == NewWorkoutLog(a, movement_record,
                                     db.current_difficulty[movement_record])
        flushed == Append(db.workout_logs, workout_log)
        \* the achievement session sees the committed tables, not this row
        awarded == CheckAndAwardAchievements(db.earned_achievements,
                                             db.workout_logs, workout_log)
        \* it has committed by the time the call's own commit runs
        earned == db.earned_achievements \o awarded
    IN  IF fault = "commit"
        THEN {Rollback([db EXCEPT !.earned_achievements = earned])}
        ELSE {[result |-> "True",
               db |-> [workout_logs |-> flushed,
                       current_difficulty |->
                           [db.current_difficulty EXCEPT ![movement_record] = difficulty],
                       earned_achievements |-> earned]] :
                 difficulty \in ProgressionOutcomes(flushed, movement_record,
                                    db.current_difficulty[movement_record])}

-----------------------------------------------------------------------------
(* main.py: show_log_movement *)

Sessions == {1, 2}

\* query(WorkoutLog).filter_by(user_id).order_by(date.desc()).first(): the rows
\* the store may answer with
LatestWorkout(logs, user_id) ==
    {i \in DOMAIN logs :
        /\ logs[i].user_id = user_id
        /\ \A j \in DOMAIN logs : logs[j].user_id = user_id => logs[j].date <= logs[i].date}

\* The handler of the submitted form, run by session s: log_movement, and when
\* it returned True the gamification step on the user's latest log, whose
\* exception the handler reports and swallows.
show_log_movement(s, a, fault) ==
    \E out \in log_movement(Database, a, fault) :
        /\ result' = [result EXCEPT ![s] = out.result]
        /\ workout_logs' = out.db.workout_logs
        /\ current_difficulty' = out.db.current_difficulty
        /\ IF out.result = "True"
           THEN \E i \in LatestWorkout(out.db.workout_logs, a.user_id) :
                   LET p == ProcessWorkout(out.db.earned_achievements,
                                           out.db.workout_logs, total_xp,
                                           out.db.workout_logs[i])
                   IN  /\ progress' = [progress EXCEPT ![s] =
                              [workout_log |-> i] @@
                              (IF p.raised THEN ProcessWorkoutRaised ELSE p.update)]
                       /\ total_xp' = IF p.raised THEN total_xp
                                      ELSE [total_xp EXCEPT ![a.user_id] = p.update.total_xp]
                       /\ earned_achievements' = out.db.earned_achievements \o p.rows
           ELSE /\ progress' = [progress EXCEPT ![s] = NoProgress]
                /\ earned_achievements' = out.db.earned_achievements
                /\ UNCHANGED total_xp
        /\ UNCHANGED <<progression_threshold, returned>>

\* A caller of DataManager.log_movement itself, with no form in front of it
call_log_movement(s, a, fault) ==
    \E out \in log_movement(Database, a, fault) :
        /\ result' = [result EXCEPT ![s] = out.result]
        /\ workout_logs' = out.db.workout_logs
        /\ current_difficulty' = out.db.current_difficulty
        /\ earned_achievements' = out.db.earned_achievements
        /\ UNCHANGED <<progression_threshold, progress, total_xp, returned>>

-----------------------------------------------------------------------------
(* Spec: the log form, submitted again and again *)

\* _initialize_database on an empty store: every catalog movement at the column
\* defaults.  "Deadlift" is given an even window so both parities are run.
Init ==
    /\ workout_logs = <<>>
    /\ current_difficulty = [m \in movements |-> DifficultyLevel[1]]
    /\ progression_threshold =
          [m \in movements |-> IF m = "Clean" THEN DefaultProgressionThreshold ELSE 2]
    /\ earned_achievements = <<>>
    /\ result = [s \in Sessions |-> "none"]
    /\ progress = [s \in Sessions |-> NoProgress]
    /\ total_xp = [user_id \in Users |-> 0]
    /\ returned = <<>>
    /\ phase = "setup"
    /\ pc = [s \in Sessions |-> "idle"]
    /\ call = [s \in Sessions |-> <<>>]
    /\ session = [s \in Sessions |-> <<>>]
    /\ base = <<>>

\* The log form with a valid lift (weight 50, 5 reps) by user 1.  "Clean" is
\* logged on any day, "Deadlift" on the day itself; the store may fail the
\* call's commit.
LogMovement ==
    /\ Len(workout_logs) < MaxLogs
    /\ \E movement \in movements, date \in Dates, completed_successfully \in {0, 1},
          fault \in {"none", "commit"} :
          /\ movement = "Deadlift" => date = Today
          /\ show_log_movement(1, Args(1, movement, 50, 5, date, completed_successfully),
                               fault)
    /\ UNCHANGED conc_vars

Next == LogMovement

Spec == Init /\ [][Next]_vars

-----------------------------------------------------------------------------
(* SpecAward: two users, heavy lifts, every store fault, out-of-range lifts *)

\* the lifts of SpecAward, as <<user_id, movement, weight>>: heavy lifts of two
\* users and on two movements, a light lift, names in another letter case or
\* padded, an unknown name
AwardLifts ==
    {<<1, "Clean", 100>>, <<1, " Clean ", 50>>, <<1, "DEADLIFT", 100>>,
     <<1, "Zumba", 100>>, <<2, "Clean", 100>>}

\* The log form submitted on the day with one of these lifts; the store may
\* fail any statement.
AwardLog ==
    /\ Len(workout_logs) < MaxAwardLogs
    /\ \E lift \in AwardLifts, fault \in Faults :
          LET a == Args(lift[1], lift[2], lift[3], 5, Today, 1)
          IN  /\ show_log_movement(1, a, fault)
              /\ call' = [call EXCEPT ![1] = a]
    /\ UNCHANGED <<phase, pc, session, base>>

\* the lifts outside the form's ranges: a negative weight, no reps, negative reps
OutOfRangeLifts == {<<-5, 5>>, <<50, 0>>, <<50, -1>>}

\* DataManager.log_movement called with a lift the form would not submit
OutOfRangeCall ==
    /\ Len(workout_logs) < MaxAwardLogs
    /\ \E lift \in OutOfRangeLifts :
          LET a == Args(1, "Clean", lift[1], lift[2], Today, 1)
          IN  /\ call_log_movement(1, a, "none")
              /\ call' = [call EXCEPT ![1] = a]
    /\ UNCHANGED <<phase, pc, session, base>>

NextAward == AwardLog \/ OutOfRangeCall

SpecAward == Init /\ [][NextAward]_vars

-----------------------------------------------------------------------------
(* SpecLevel: the read-only functions of a total and of two datetimes:      *)
(* get_current_level and get_user_progress on totals around every level's  *)
(* threshold, _calculate_time_score on hours apart                          *)

\* the totals it is called with: 0, and each xp_required less one, exactly,
\* plus one and plus 400
XpSamples ==
    {0} \cup {levels[level].xp_required + d : level \in Levels, d \in {-1, 0, 1, 400}}

GetCurrentLevel ==
    /\ \E total \in XpSamples :
          returned' = [function |-> "get_current_level",
                       args |-> <<total>>,
                       value |-> get_current_level(total)]
    /\ UNCHANGED <<db_vars, total_xp, result, progress, conc_vars>>

\* the class of the profile row: UserProfile as utils/models.py maps it, and
\* with the total_xp column GamificationManager reads and writes
UserProfileClasses == {UserProfileAttributes, UserProfileAttributes \cup ProcessWorkoutReads}

GetUserProgress ==
    /\ \E attributes \in UserProfileClasses, user_id \in Users \cup {0},
          stored_total_xp \in XpSamples :
          \E value \in get_user_progress(attributes, earned_achievements, user_id,
                                         stored_total_xp) :
             returned' = [function |-> "get_user_progress",
                          args |-> <<user_id>>,
                          value |-> value]
    /\ UNCHANGED <<db_vars, total_xp, result, progress, conc_vars>>

\* the datetimes _calculate_time_score is called with, as <<day, hour>>
TimeSamples == {<<day, hour>> : day \in 0..3, hour \in {0, 6, 12, 18, 23}}

\* (current_date - last_workout_date).total_seconds() / 3600
HoursBetween(last_workout_date, current_date) ==
    (current_date[1] - last_workout_date[1]) * 24 + current_date[2] - last_workout_date[2]

CalculateTimeScore ==
    /\ \E last_workout_date \in {<<0, 0>>, <<0, 12>>}, current_date \in TimeSamples :
          returned' = [function |-> "_calculate_time_score",
                       args |-> <<last_workout_date, current_date>>,
                       value |-> [time_score |->
                           time_score(HoursBetween(last_workout_date, current_date))]]
    /\ UNCHANGED <<db_vars, total_xp, result, progress, conc_vars>>

NextLevel == GetCurrentLevel \/ GetUserProgress \/ CalculateTimeScore

SpecLevel == Init /\ [][NextLevel]_vars

-----------------------------------------------------------------------------
(* SpecScore: the log form, then the strain and recovery cards of the home   *)
(* page                                                                      *)

\* the events logged, as <<user_id, weight, reps, date>>, all for "Clean":
\* light lifts of user 1 from eight days back to tomorrow, an empty bar and
\* heavy high-volume lifts, and two events of user 2
ScoreEvents ==
    {<<1, 50, 5, Today - 8>>, <<1, 50, 5, Today - 7>>, <<1, 50, 5, Today - 1>>,
     <<1, 50, 5, Today>>, <<1, 50, 5, Today + 1>>, <<1, 0, 5, Today>>,
     <<1, 100, 60, Today>>, <<1, 100, 60, Today - 1>>,
     <<2, 100, 60, Today>>, <<2, 50, 5, Today - 1>>}

\* datetime.now() when the page is drawn: the day at midnight or at noon
Now == {<<Today, 0>>, <<Today, 12>>}

ScoreLog ==
    /\ Len(workout_logs) < MaxScoreLogs
    /\ \E e \in ScoreEvents :
          show_log_movement(1, Args(e[1], "Clean", e[2], e[3], e[4], 1), "none")
    /\ UNCHANGED conc_vars

StrainCard ==
    /\ \E user_id \in Users, date \in Now :
          \E strain_data \in calculate_strain_score(workout_logs, user_id, date) :
             returned' = [function |-> "calculate_strain_score",
                          args |-> <<user_id, date>>,
                          value |-> strain_data]
    /\ UNCHANGED <<db_vars, total_xp, result, progress, conc_vars>>

RecoveryCard ==
    /\ \E user_id \in Users, date \in Now :
          \E recovery_data \in calculate_recovery_score(workout_logs, user_id, date) :
             returned' = [function |-> "calculate_recovery_score",
                          args |-> <<user_id, date>>,
                          value |-> recovery_data]
    /\ UNCHANGED <<db_vars, total_xp, result, progress, conc_vars>>

NextScore == ScoreLog \/ StrainCard \/ RecoveryCard

SpecScore == Init /\ [][NextScore]_vars

-----------------------------------------------------------------------------
(* SpecConc: two sessions, each running one log form statement by statement *)
(* against the committed tables (READ COMMITTED, the store's default): a     *)
(* statement sees what is committed when it runs and what its own session    *)
(* has flushed.                                                              *)

\* Before the concurrent calls: the form submitted by user 1 with a light
\* lift, one whole handler a step.
SetupLog ==
    /\ phase = "setup"
    /\ Len(workout_logs) < MaxSetupLogs
    /\ \E movement \in movements, completed_successfully \in {0, 1} :
          show_log_movement(1, Args(1, movement, 50, 5, Today, completed_successfully),
                            "none")
    /\ UNCHANGED conc_vars

\* log_movement up to session.flush(): the name validation, the SELECT of the
\* movement row (its tier is read here and not again) and the INSERT.  The
\* first call to begin ends the setup.
Begin(s) ==
    /\ pc[s] = "idle"
    /\ \E movement \in movements, completed_successfully \in {0, 1} :
          LET a == Args(1, movement, 100, 5, Today, completed_successfully)
              found == MovementRecord(Database, a.movement)
          IN  /\ call' = [call EXCEPT ![s] = a]
              /\ IF Normalize(a.movement) \notin DOMAIN valid_movements \/ found = {}
                 THEN /\ pc' = [pc EXCEPT ![s] = "done"]
                      /\ result' = [result EXCEPT ![s] = "Exception"]
                      /\ UNCHANGED session
                 ELSE LET movement_record == CHOOSE m \in found : TRUE
                          difficulty == current_difficulty[movement_record]
                      IN  /\ session' = [session EXCEPT ![s] =
                                 [movement_record |-> movement_record,
                                  current_difficulty |-> difficulty,
                                  loaded_difficulty |-> difficulty,
                                  workout_log |-> NewWorkoutLog(a, movement_record, difficulty),
                                  awarded |-> <<>>]]
                          /\ pc' = [pc EXCEPT ![s] = "flushed"]
                          /\ UNCHANGED result
    /\ IF phase = "setup"
       THEN /\ phase' = "concurrent"
            /\ base' = Database
       ELSE UNCHANGED <<phase, base>>
    /\ UNCHANGED <<db_vars, xp_vars, progress>>

\* _update_movement_progression: the query sees the committed rows and the
\* session's own row; the new tier stays in the session's movement object
UpdateProgression(s) ==
    /\ pc[s] = "flushed"
    /\ \E difficulty \in
          ProgressionOutcomes(Append(workout_logs, session[s].workout_log),
                              session[s].movement_record,
                              session[s].current_difficulty) :
          session' = [session EXCEPT ![s].current_difficulty = difficulty]
    /\ pc' = [pc EXCEPT ![s] = "progressed"]
    /\ UNCHANGED <<db_vars, xp_vars, result, progress, phase, call, base>>

\* check_and_award_achievements up to its commit: the achievement session reads
\* the committed tables and flushes its rows
CheckAchievements(s) ==
    /\ pc[s] = "progressed"
    /\ session' = [session EXCEPT ![s].awarded =
          CheckAndAwardAchievements(earned_achievements, workout_logs,
                                    session[s].workout_log)]
    /\ pc' = [pc EXCEPT ![s] = "awarding"]
    /\ UNCHANGED <<db_vars, xp_vars, result, progress, phase, call, base>>

\* AchievementManager._session_scope: the achievement session commits
CommitAchievements(s) ==
    /\ pc[s] = "awarding"
    /\ earned_achievements' = earned_achievements \o session[s].awarded
    /\ pc' = [pc EXCEPT ![s] = "awarded"]
    /\ UNCHANGED <<workout_logs, current_difficulty, progression_threshold,
                   xp_vars, result, progress, phase, call, session, base>>

\* DataManager._session_scope: the call's session commits its row and, where
\* the movement object changed, the UPDATE of the tier; the call returns True
Commit(s) ==
    /\ pc[s] = "awarded"
    /\ workout_logs' = Append(workout_logs, session[s].workout_log)
    /\ current_difficulty' =
          IF session[s].current_difficulty # session[s].loaded_difficulty
          THEN [current_difficulty EXCEPT ![session[s].movement_record] =
                   session[s].current_difficulty]
          ELSE current_difficulty
    /\ result' = [result EXCEPT ![s] = "True"]
    /\ pc' = [pc EXCEPT ![s] = "logged"]
    /\ UNCHANGED <<progression_threshold, earned_achievements, xp_vars, progress, phase,
                   call, session, base>>

\* the store fails the statement the call has reached: every open session
\* rolls back and the call raises
Fail(s) ==
    /\ pc[s] \in {"flushed", "progressed", "awarding", "awarded"}
    /\ result' = [result EXCEPT ![s] = "Exception"]
    /\ pc' = [pc EXCEPT ![s] = "done"]
    /\ UNCHANGED <<db_vars, xp_vars, progress, phase, call, session, base>>

\* show_log_movement after log_movement returned True: process_workout on the
\* user's latest committed log, in a session of its own
Gamify(s) ==
    /\ pc[s] = "logged"
    /\ \E i \in LatestWorkout(workout_logs, call[s].user_id) :
          LET p == ProcessWorkout(earned_achievements, workout_logs, total_xp,
                                  workout_logs[i])
          IN  /\ progress' = [progress EXCEPT ![s] =
                     [workout_log |-> i] @@
                     (IF p.raised THEN ProcessWorkoutRaised ELSE p.update)]
              /\ total_xp' = IF p.raised THEN total_xp
                             ELSE [total_xp EXCEPT ![call[s].user_id] = p.update.total_xp]
              /\ earned_achievements' = earned_achievements \o p.rows
    /\ pc' = [pc EXCEPT ![s] = "done"]
    /\ UNCHANGED <<workout_logs, current_difficulty, progression_threshold,
                   returned, result, phase, call, session, base>>

NextConc ==
    \/ SetupLog
    \/ \E s \in Sessions : Begin(s)
    \/ \E s \in Sessions : UpdateProgression(s)
    \/ \E s \in Sessions : CheckAchievements(s)
    \/ \E s \in Sessions : CommitAchievements(s)
    \/ \E s \in Sessions : Commit(s)
    \/ \E s \in Sessions : Fail(s)
    \/ \E s \in Sessions : Gamify(s)

SpecConc == Init /\ [][NextConc]_vars

-----------------------------------------------------------------------------
(* Vocabulary of the claims about progression *)

\* a step in which a log_movement call returned True: its row is the last one
Logged == Len(workout_logs') = Len(workout_logs) + 1

LoggedRow == workout_logs'[Len(workout_logs')]

\* the windows "the limit most recent events by date" can mean after the call
\* (one window unless dates tie at its edge)
MostRecentWindows(movement_id) ==
    LET rows == {i \in DOMAIN workout_logs' : workout_logs'[i].movement_id = movement_id}
        k == progression_threshold[movement_id]
    IN  {w \in SUBSET rows :
            /\ Cardinality(w) = k
            /\ ~ \E i \in w, j \in rows \ w :
                    workout_logs'[j].date > workout_logs'[i].date}

Successes(w) == Cardinality({i \in w : workout_logs'[i].completed_successfully = 1})

Promoted(m) == /\ current_difficulty[m] # "ELITE"
               /\ current_difficulty'[m] = DifficultyLevel[Index(current_difficulty[m]) + 1]

Demoted(m) == /\ current_difficulty[m] # "BEGINNER"
              /\ current_difficulty'[m] = DifficultyLevel[Index(current_difficulty[m]) - 1]

Abs(x) == IF x < 0 THEN -x ELSE x

-----------------------------------------------------------------------------
\* C1: every tier is always one of BEGINNER, INTERMEDIATE, ADVANCED, ELITE, and
\* no step (no log_movement call) moves a movement's tier by more than one
\* position in that order.
C1_SingleStepTier ==
    /\ [](\A m \in movements : current_difficulty[m] \in DifficultyValues)
    /\ [][\A m \in movements :
             Abs(Index(current_difficulty'[m]) - Index(current_difficulty[m])) <= 1]_vars

\* a movement was promoted three times and another call has run at the top tier
C1_Witness ==
    \E i \in DOMAIN workout_logs :
        /\ workout_logs[i].difficulty_level = "ELITE"
        /\ current_difficulty[workout_logs[i].movement_id] = "ELITE"

\* C2: a call that returns True promotes its movement by one tier exactly when
\* the movement then has at least progression_threshold stored events, the
\* progression_threshold most recent of them by date are all successful and the
\* tier was not ELITE; with fewer stored events, and in a call that raises, no
\* tier changes.  Where dates tie at the window's edge the store picks the
\* window: a promotion needs some most-recent window all successful, and every
\* most-recent window all successful forces the promotion.
C2_PromotionIff ==
    [][ IF Logged
        THEN LET m == LoggedRow.movement_id
                 k == progression_threshold[m]
                 windows == MostRecentWindows(m)
             IN  /\ Promoted(m) =>
                        \E w \in windows : Successes(w) = k
                 /\ ( /\ windows # {}
                      /\ \A w \in windows : Successes(w) = k
                      /\ current_difficulty[m] # "ELITE" ) => Promoted(m)
                 /\ windows = {} => current_difficulty'[m] = current_difficulty[m]
                 /\ \A o \in movements \ {m} :
                        current_difficulty'[o] = current_difficulty[o]
        ELSE current_difficulty' = current_difficulty ]_vars

\* a promotion has happened in a window that holds a backdated event, and a
\* movement with too few events has stayed at its first tier
C2_Witness ==
    /\ current_difficulty["Clean"] = "INTERMEDIATE"
    /\ \E i, j \in DOMAIN workout_logs :
          /\ i < j
          /\ workout_logs[i].movement_id = "Clean"
          /\ workout_logs[j].movement_id = "Clean"
          /\ workout_logs[j].date < workout_logs[i].date
    /\ current_difficulty["Deadlift"] = "BEGINNER"
    /\ Cardinality(MovementLogs(workout_logs, "Deadlift")) = 1

\* C3: on a full window a call that returns True demotes a movement above
\* BEGINNER exactly when strictly fewer than half of the window's events were
\* successful (2 * successes < progression_threshold), for odd and even
\* thresholds alike.
C3_DemotionIffFewerThanHalf ==
    [][ Logged =>
        LET m == LoggedRow.movement_id
            k == progression_threshold[m]
            windows == MostRecentWindows(m)
        IN  /\ Demoted(m) => \E w \in windows : 2 * Successes(w) < k
            /\ ( /\ windows # {}
                 /\ \A w \in windows : 2 * Successes(w) < k
                 /\ current_difficulty[m] # "BEGINNER" ) => Demoted(m) ]_vars

\* C4: the row a call stores carries the tier its movement had before the call,
\* and no call changes a row that is already stored.
C4_SnapshotFixed ==
    [][ /\ Logged => LoggedRow.difficulty_level =
                        current_difficulty[LoggedRow.movement_id]
        /\ Len(workout_logs') >= Len(workout_logs)
        /\ \A i \in DOMAIN workout_logs : workout_logs'[i] = workout_logs[i] ]_vars

\* a stored row keeps a tier its movement has since left, upwards and downwards
C4_Witness ==
    /\ \E i \in DOMAIN workout_logs :
          Index(workout_logs[i].difficulty_level) <
             Index(current_difficulty[workout_logs[i].movement_id])
    /\ \E i \in DOMAIN workout_logs :
          Index(workout_logs[i].difficulty_level) >
             Index(current_difficulty[workout_logs[i].movement_id])

\* C24: a call that stores an event with completed_successfully = 0 never
\* raises a tier, whatever the date of the event is relative to the dates of
\* the events already stored.
C24_FailedEventNeverPromotes ==
    [][ ( /\ Logged
          /\ LoggedRow.completed_successfully = 0 )
        => \A m \in movements :
              Index(current_difficulty'[m]) <= Index(current_difficulty[m]) ]_vars

\* the stored events of a movement, in the order they were logged
EventsOf(m) == SelectSeq(workout_logs, LAMBDA row : row.movement_id = m)

\* the tier of the movement after its i-th event was logged: the tier the
\* next event was stored with, or the current tier after the last event
TierAfter(m, i) ==
    IF i < Len(EventsOf(m)) THEN EventsOf(m)[i + 1].difficulty_level
    ELSE current_difficulty[m]

\* the events of the movement whose logging promoted it
Promotions(m) ==
    {i \in 1..Len(EventsOf(m)) :
        Index(TierAfter(m, i)) > Index(EventsOf(m)[i].difficulty_level)}

\* C25: after a movement has been promoted it is not promoted again until at
\* least progression_threshold further events for that movement have been
\* logged.
C25_PromotionsApart ==
    \A m \in movements :
        \A i, j \in Promotions(m) :
            i < j => j - i >= progression_threshold[m]

-----------------------------------------------------------------------------
(* Claims about failure and awarding, under SpecAward *)

\* no two earned_achievements rows with the same (achievement, user, movement)
AwardsUnique ==
    \A i, j \in DOMAIN earned_achievements :
        i # j => earned_achievements[i] # earned_achievements[j]

\* C7: a log_movement call that raises leaves no workout event, no tier change
\* and no EarnedAchievement row behind, whichever statement failed.
C7_AllOrNothing ==
    [][ result'[1] = "Exception" =>
            /\ workout_logs' = workout_logs
            /\ current_difficulty' = current_difficulty
            /\ earned_achievements' = earned_achievements ]_vars

\* the (achievement, user, movement) the logged row's weight predicate is about
WeightTriple(row) ==
    [achievement_id |-> WeightMaster.name, user_id |-> row.user_id,
     movement_name |-> row.movement_id]

\* C9: handlers run one after another never leave two EarnedAchievement rows
\* with the same (achievement_id, user_id, movement_name), and processing a
\* workout whose predicate is already earned adds no row and raises no error,
\* in log_movement's award path and in process_workout's.
C9_IdempotentAward ==
    /\ []AwardsUnique
    /\ [][ ( /\ Logged
             /\ LoggedRow.weight >= WeightMaster.criteria_value
             /\ \E i \in DOMAIN earned_achievements :
                   earned_achievements[i] = WeightTriple(LoggedRow) )
           => /\ earned_achievements' = earned_achievements
              /\ result'[1] = "True"
              /\ progress'[1].status # "Exception" ]_vars

\* the catalog movement a name spells, letter case and surrounding blanks
\* aside; None for a name that spells no catalog movement
CatalogName(name) ==
    CASE name \in {"Clean", "clean", " Clean "} -> "Clean"
      [] name \in {"Deadlift", "DEADLIFT"} -> "Deadlift"
      [] OTHER -> None

C10_OutOfRangeLiftRejected ==
    \A i \in DOMAIN workout_logs :
        /\ workout_logs[i].reps > 0
        /\ workout_logs[i].weight >= 0

-----------------------------------------------------------------------------
(* The worked example of progression, under Spec *)

IsClean(row) == row.movement_id = "Clean"

\* the stored events of "Clean", in the order they were logged
CleanEvents == SelectSeq(workout_logs, IsClean)

\* C12: "Clean" starts at BEGINNER with no events and a threshold of 3.  Once
\* exactly three events are stored, all successful, its tier is INTERMEDIATE;
\* and with a fourth, failed event stored after them its tier is still
\* INTERMEDIATE.
C12_ThreeSuccessesThenAFailure ==
    LET e == CleanEvents
    IN  /\ progression_threshold["Clean"] = 3
        /\ ( /\ Len(e) = 3
              /\ \A i \in 1..3 : e[i].completed_successfully = 1 )
           => current_difficulty["Clean"] = "INTERMEDIATE"
        /\ ( /\ Len(e) = 4
              /\ \A i \in 1..3 : e[i].completed_successfully = 1
              /\ e[4].completed_successfully = 0 )
           => current_difficulty["Clean"] = "INTERMEDIATE"

\* the same example with the failed event dated after the three successes
ThreeSuccessesThenALaterFailure ==
    LET e == CleanEvents
    IN  ( /\ Len(e) = 4
          /\ \A i \in 1..3 : /\ e[i].completed_successfully = 1
                              /\ e[i].date < e[4].date
          /\ e[4].completed_successfully = 0 )
        => current_difficulty["Clean"] = "INTERMEDIATE"

-----------------------------------------------------------------------------
(* Claims about experience points, under Spec *)

\* floor((100 + min(100, weight * reps / 10)) * m + s), m by tier and s by
\* outcome, computed in hundredths
FormulaXp(row) ==
    LET m == CASE row.difficulty_level = "BEGINNER" -> 10
               [] row.difficulty_level = "INTERMEDIATE" -> 15
               [] row.difficulty_level = "ADVANCED" -> 20
               [] row.difficulty_level = "ELITE" -> 30
        bonus == IF row.weight * row.reps < 1000 THEN row.weight * row.reps ELSE 1000
        success == IF row.completed_successfully = 1 THEN 50 ELSE 0
    IN  ((1000 + bonus) * m + 100 * success) \div 100

\* C13: for every stored workout, calculate_workout_xp returns
\* floor((100 + min(100, weight*reps/10)) * m + s), with m in 1.0, 1.5, 2.0, 3.0
\* by the event's difficulty snapshot and s = 50 for a successful event, else 0.
C13_WorkoutXpFormula ==
    \A i \in DOMAIN workout_logs :
        LET xp == calculate_workout_xp(workout_logs[i])
        IN  /\ ~ xp.raised
            /\ xp.xp = FormulaXp(workout_logs[i])

\* the stored successful ELITE-tier events of 50 kg x 5 reps
EliteExampleRows ==
    {i \in DOMAIN workout_logs :
        /\ workout_logs[i].difficulty_level = "ELITE"
        /\ workout_logs[i].weight = 50
        /\ workout_logs[i].reps = 5
        /\ workout_logs[i].completed_successfully = 1}

\* the XP the arithmetic of calculate_workout_xp gives a stored event
RowXp(i) ==
    XpOf(workout_logs[i].difficulty_level, workout_logs[i].weight,
         workout_logs[i].reps, workout_logs[i].completed_successfully)

C15_TotalXpAccumulates ==
    [][ /\ \A user_id \in Users : total_xp'[user_id] >= total_xp[user_id]
        /\ IF Logged
           THEN /\ progress'[1].status = "ProgressUpdate"
                /\ progress'[1].xp_gained >= 100
                /\ total_xp'[LoggedRow.user_id] =
                       total_xp[LoggedRow.user_id] + progress'[1].xp_gained
                /\ progress'[1].total_xp = total_xp'[LoggedRow.user_id]
           ELSE total_xp' = total_xp ]_vars

\* C17: process_workout reports a level-up, with the new level's title and
\* rewards, exactly when the level for the new total is higher than the level
\* for the old total; otherwise new_level is None.
C17_LevelUpIffHigher ==
    [][ Logged =>
          /\ progress'[1].status = "ProgressUpdate"
          /\ LET old_level == get_current_level(total_xp[LoggedRow.user_id])
                 new_level == get_current_level(total_xp'[LoggedRow.user_id])
             IN  IF new_level.level > old_level.level
                 THEN progress'[1].new_level = <<new_level>>
                 ELSE progress'[1].new_level = <<>> ]_vars

\* C26: after a log_movement that returned True the gamification step
\* processes exactly the event that was just logged, and the event contributes
\* its XP to the user's stored total, whatever its date is relative to the
\* user's earlier events.
C26_ProcessesTheLoggedEvent ==
    [][ Logged =>
          /\ progress'[1].workout_log = Len(workout_logs')
          /\ progress'[1].status = "ProgressUpdate"
          /\ total_xp'[LoggedRow.user_id] =
                 total_xp[LoggedRow.user_id] + FormulaXp(LoggedRow) ]_vars

\* the part of C26 about which event is processed
ProcessedTheLoggedEvent ==
    [][ Logged => progress'[1].workout_log = Len(workout_logs') ]_vars

-----------------------------------------------------------------------------
(* Claims about levels, under SpecLevel *)

\* the levels whose xp_required a total has reached
ReachedLevels(total) == {level \in 1..30 : levels[level].xp_required <= total}

\* xp_required is floor(1000 * 1.5^(L-1)), compared where 1000 * 3^(L-1) is
\* small enough to be computed directly
ExponentialCurve ==
    \A level \in 1..14 :
        levels[level].xp_required = (1000 * 3 ^ (level - 1)) \div 2 ^ (level - 1)

\* C16, as stated: for every total_xp >= 0, get_current_level returns the
\* highest level L in 1..30 whose xp_required = floor(1000 * 1.5^(L-1)) is at
\* most total_xp.
C16_HighestLevelReached ==
    /\ ExponentialCurve
    /\ ( /\ returned # <<>>
         /\ returned.function = "get_current_level" ) =>
          LET total == returned.args[1]
              level == returned.value.level
          IN  /\ level \in ReachedLevels(total)
              /\ \A other \in ReachedLevels(total) : other <= level

\* C16, amended: for every total_xp >= 1000, get_current_level returns the
\* highest level L in 1..30 whose xp_required = floor(1000 * 1.5^(L-1)) is at
\* most total_xp; for a total_xp below 1000, which has reached no level's
\* xp_required, it returns level 1.
C16_HighestLevelReachedOrFirst ==
    /\ ExponentialCurve
    /\ ( /\ returned # <<>>
         /\ returned.function = "get_current_level" ) =>
          LET total == returned.args[1]
              level == returned.value.level
          IN  /\ returned.value = levels[level]
              /\ IF total >= 1000
                 THEN /\ level \in ReachedLevels(total)
                      /\ \A other \in ReachedLevels(total) : other <= level
                 ELSE /\ ReachedLevels(total) = {}
                      /\ level = 1

\* get_current_level was called with a total of exactly level 7's xp_required
C16_Witness ==
    /\ returned # <<>>
    /\ returned.function = "get_current_level"
    /\ returned.args[1] = levels[7].xp_required
    /\ returned.value.level = 7

-----------------------------------------------------------------------------
(* Claims about the strain and recovery scores, under SpecScore.  Scores are *)
(* in tenths and components in hundredths.                                   *)

\* the step is a call of the function, with its value in returned'
Returns(function) ==
    /\ returned' # returned
    /\ returned'.function = function

\* the user's stored events dated on the day of the call
EventsOnTheDay ==
    {i \in DOMAIN workout_logs :
        /\ workout_logs[i].user_id = returned'.args[1]
        /\ workout_logs[i].date = returned'.args[2][1]}

\* the user's stored events dated in the seven days before the day of the call
EventsOfTheWeekBefore ==
    {i \in DOMAIN workout_logs :
        /\ workout_logs[i].user_id = returned'.args[1]
        /\ workout_logs[i].date >= returned'.args[2][1] - 7
        /\ workout_logs[i].date < returned'.args[2][1]}

C19_RecoveryTenWithoutLoad ==
    [][ Returns("calculate_recovery_score") =>
          IF EventsOfTheWeekBefore = {}
          THEN returned'.value.recovery_score = 100
          ELSE /\ returned'.value.recovery_score >= 10
               /\ returned'.value.recovery_score <= 100 ]_vars

\* C20: each of the components volume, intensity and frequency returned by
\* calculate_strain_score is from 0 to 10.
C20_ComponentsWithinTen ==
    [][ Returns("calculate_strain_score") =>
          LET components == returned'.value.components
          IN  /\ components.volume >= 0 /\ components.volume <= 1000
              /\ components.intensity >= 0 /\ components.intensity <= 1000
              /\ components.frequency >= 0 /\ components.frequency <= 1000 ]_vars

-----------------------------------------------------------------------------
(* Claims about the time score and the progress percentage, under SpecLevel *)

\* the hours apart of the datetimes a _calculate_time_score call was made with
HoursOf(r) == HoursBetween(r.args[1], r.args[2])

\* C28: _calculate_time_score is non-decreasing in the hours since the last
\* workout over 0..48 h and beyond: of two calls, the one with no fewer hours
\* returns no lower a score; from 48 h on the score is 10.
C28_TimeScoreMonotone ==
    [][ ( /\ returned # <<>>
          /\ returned.function = "_calculate_time_score"
          /\ Returns("_calculate_time_score")
          /\ HoursOf(returned) >= 0
          /\ HoursOf(returned) <= HoursOf(returned') )
        => /\ ~ Less(returned'.value.time_score, returned.value.time_score)
           /\ HoursOf(returned') >= 48 => returned'.value.time_score = Frac(10, 1) ]_vars

-----------------------------------------------------------------------------
(* Weight Master under the two award paths, under SpecAward *)

\* the stored events of at least 100 kg
HeavyLifts == {i \in DOMAIN workout_logs : workout_logs[i].weight >= WeightMaster.criteria_value}

\* row is a Weight Master award to the user of the event, tagged to its movement
WeightMasterFor(row, event) ==
    /\ row.achievement_id = WeightMaster.name
    /\ row.user_id = event.user_id
    /\ row.movement_name = event.movement_id

\* the path through AchievementManager: every stored event of at least 100 kg
\* has a Weight Master row of its user tagged to its movement
WeightMasterByAchievementManager ==
    \A i \in HeavyLifts :
        \E j \in DOMAIN earned_achievements :
            WeightMasterFor(earned_achievements[j], workout_logs[i])

\* the path through GamificationManager: _check_achievements, run for a stored
\* event of at least 100 kg on tables that hold no Weight Master row of the
\* user for the movement, adds that row
WeightMasterByGamificationManager ==
    \A i \in HeavyLifts :
        LET others == SelectSeq(earned_achievements,
                                LAMBDA row : ~ WeightMasterFor(row, workout_logs[i]))
            awarded == GamificationCheckAchievements(others, workout_logs, workout_logs[i])
        IN  /\ ~ awarded.raised
            /\ \E j \in DOMAIN awarded.rows : WeightMasterFor(awarded.rows[j], workout_logs[i])

\* C30: Weight Master is awarded per movement under both award paths: a user
\* who logs a lift of at least 100 kg on two different movements ends up with
\* a Weight Master row tagged to each of them.
C30_WeightMasterPerMovement ==
    /\ WeightMasterByAchievementManager
    /\ WeightMasterByGamificationManager

-----------------------------------------------------------------------------
(* SpecStreak: the log form over a week of days *)

\* the seven days up to today
StreakDates == (Today - 6)..Today

\* The log form with a successful lift of "Clean" (weight 50, 5 reps) by user
\* 1, dated within the week: on a day that already has an event, or on the
\* day after the latest one (the first day of the week to begin with).
StreakLog ==
    /\ Len(workout_logs) < MaxStreakLogs
    /\ \E date \in StreakDates :
          /\ \A d \in StreakDates :
                d < date => \E i \in DOMAIN workout_logs : workout_logs[i].date = d
          /\ show_log_movement(1, Args(1, "Clean", 50, 5, date, 1), "none")
    /\ UNCHANGED conc_vars

NextStreak == StreakLog

SpecStreak == Init /\ [][NextStreak]_vars

\* the run of consecutive days ending at the latest workout date of the user,
\* over the stored events
StreakOf(logs, user_id) == CurrentStreak({logs[i].date : i \in {j \in DOMAIN logs : logs[j].user_id = user_id}})

\* C27: when log_movement returns for the event that brings the user's
\* workout dates to 7 consecutive calendar days, the user holds a Consistency
\* King EarnedAchievement: the streak check of that call counts the event
\* being logged.
C27_StreakCountsTheLoggedEvent ==
    [][ ( /\ Logged
          /\ StreakOf(workout_logs, LoggedRow.user_id) < ConsistencyKing.criteria_value
          /\ StreakOf(workout_logs', LoggedRow.user_id) >= ConsistencyKing.criteria_value )
        => \E i \in DOMAIN earned_achievements' :
              /\ earned_achievements'[i].achievement_id = ConsistencyKing.name
              /\ earned_achievements'[i].user_id = LoggedRow.user_id ]_vars

-----------------------------------------------------------------------------
(* SpecPredict: the log form, then the PR forecast and the training insights *)
(* of the movement                                                           *)

\* the events logged, as <<weight, date, completed_successfully>>, all by user
\* 1 for "Clean" with 5 reps: a light lift a week back, a heavy lift today and
\* a failed lift of 100 kg today
PredictEvents ==
    {<<50, Today - 7, 1>>, <<102, Today, 1>>, <<100, Today, 0>>}

PredictLog ==
    /\ Len(workout_logs) < MaxPredictLogs
    /\ \E e \in PredictEvents :
          show_log_movement(1, Args(1, "Clean", e[1], 5, e[2], e[3]), "none")
    /\ UNCHANGED conc_vars

PredictPr ==
    /\ \E movement \in movements :
          \E predictions \in predict_pr(workout_logs,
                                        get_movement_history(workout_logs, movement)) :
             returned' = [function |-> "predict_pr",
                          args |-> <<movement>>,
                          value |-> predictions]
    /\ UNCHANGED <<db_vars, total_xp, result, progress, conc_vars>>

TrainingInsights ==
    /\ \E movement \in movements :
          \E insights \in get_training_insights(workout_logs,
                              get_movement_history(workout_logs, movement)) :
             returned' = [function |-> "get_training_insights",
                          args |-> <<movement>>,
                          value |-> insights]
    /\ UNCHANGED <<db_vars, total_xp, result, progress, conc_vars>>

MovementPredictions ==
    /\ \E movement \in movements \cup {"Zumba"} :
          \E prediction_data \in get_movement_predictions(Database, movement) :
             returned' = [function |-> "get_movement_predictions",
                          args |-> <<movement>>,
                          value |-> prediction_data]
    /\ UNCHANGED <<db_vars, total_xp, result, progress, conc_vars>>

NextPredict == PredictLog \/ PredictPr \/ TrainingInsights \/ MovementPredictions

SpecPredict == Init /\ [][NextPredict]_vars

\* the stored rows of the movement the call is about
HistoryOfTheCall == get_movement_history(workout_logs, returned'.args[1])

\* the call returned a numeric prediction
NumericPrediction == returned'.value.prediction # <<>>

\* x is a multiple of 0.5
MultipleOfHalf(x) == (2 * x[1]) % x[2] = 0

\* C21: for every history of at least 5 data points, the prediction returned
\* by predict_pr is a multiple of 0.5 and does not exceed 1.15 x current_pr,
\* the maximum weight in the history.
C21_PredictionCapped ==
    [][ ( /\ Returns("predict_pr")
          /\ Cardinality(HistoryOfTheCall) >= min_data_points )
        => /\ NumericPrediction
           /\ MultipleOfHalf(returned'.value.prediction[1])
           /\ ~ Less(Times(returned'.value.current_pr, 115, 100),
                     returned'.value.prediction[1]) ]_vars

\* C22: when the prediction predict_pr arrives at is less than or equal to the
\* current PR, the predicted value it returns is the current PR itself, never
\* a value below it, and the message recommends maintaining the pattern.
C22_NeverBelowCurrentPr ==
    [][ ( /\ Returns("predict_pr")
          /\ NumericPrediction
          /\ ~ Less(returned'.value.current_pr, returned'.value.prediction[1]) )
        => /\ returned'.value.prediction[1] = returned'.value.current_pr
           /\ returned'.value.message =
                  "Maintain current training pattern to preserve your PR." ]_vars

\* C23: with fewer than 5 data points predict_pr returns no numeric prediction
\* (prediction None, confidence 0 and the explanatory message) and
\* get_training_insights returns the not-enough-data message.
C23_NoPredictionBelowFive ==
    [][ /\ ( /\ Returns("predict_pr")
             /\ Cardinality(HistoryOfTheCall) < 5 )
           => returned'.value =
                  [prediction |-> <<>>, confidence |-> Frac(0, 1),
                   message |-> "Not enough data for prediction. Need at least 5 workouts."]
        /\ ( /\ Returns("get_training_insights")
             /\ Cardinality(HistoryOfTheCall) < 5 )
           => returned'.value.lines =
                  <<"Not enough data for insights. Continue logging your workouts!">>
      ]_vars

\* predict_pr has returned without a prediction for a movement with four
\* stored events
C23_Witness ==
    /\ returned # <<>>
    /\ returned.function = "predict_pr"
    /\ Cardinality(get_movement_history(workout_logs, returned.args[1])) = 4
    /\ returned.value.prediction = <<>>

-----------------------------------------------------------------------------
(* Claims about concurrent calls, under SpecConc *)

\* the tiers two calls can leave when one runs wholly before the other
SerialDifficulties(db, first, second) ==
    {o2.db.current_difficulty :
        o2 \in UNION {log_movement(o1.db, second, "none") :
                         o1 \in log_movement(db, first, "none")}}

\* C5: when two concurrent log_movement calls have both returned True, the
\* tiers are those some serial execution of the two calls produces from the
\* tables they started on.
C5_SerialTier ==
    ( /\ phase = "concurrent"
      /\ \A s \in Sessions : pc[s] = "done" /\ result[s] = "True" )
    => current_difficulty \in SerialDifficulties(base, call[1], call[2])
                              \cup SerialDifficulties(base, call[2], call[1])

\* C6: what a call does becomes visible to other sessions in one step: no
\* committed achievement row appears, and no committed tier changes, except in
\* the step that commits the workout event.
C6_NoPartialEvent ==
    [][ ( \/ earned_achievements' # earned_achievements
          \/ current_difficulty' # current_difficulty ) => Logged ]_vars

\* C8: after concurrent processing of workouts of one user there is at most one
\* EarnedAchievement row for each (achievement_id, user_id, movement_name).
C8_ConcurrentAwardsUnique ==
    \A i, j \in DOMAIN earned_achievements :
        ( /\ earned_achievements[i].achievement_id = earned_achievements[j].achievement_id
          /\ earned_achievements[i].user_id = earned_achievements[j].user_id
          /\ earned_achievements[i].movement_name = earned_achievements[j].movement_name )
        => i = j

====
